---- MODULE Spec2Model ----
(***************************************************************************)
(* Model of the live-polling request handlers under src/api.               *)
(*                                                                         *)
(* The store (Supabase/PostgREST) is five tables.  A table is a sequence   *)
(* of rows; the id of a row is its index (the store assigns ids, rows are  *)
(* never deleted).  Every `.execute()` of a handler is one round-trip to   *)
(* the store and is one atomic step of the model; the local computation    *)
(* between two round-trips is folded into the step of the round-trip that  *)
(* precedes it (and, for the code before the first round-trip, the one     *)
(* that follows it).  Handlers hold no lock across round-trips, so steps   *)
(* of different requests interleave freely.                                *)
(*                                                                         *)
(* A falsy request value (missing key, None, "", 0) is 0 or "".            *)
(*                                                                         *)
(* issued is history: issued[<<p, t>>] is the session_id that the first    *)
(* session create for poll_id p and session_token t to answer with one     *)
(* returned (0 while none has).                                            *)
(***************************************************************************)
EXTENDS Integers, Sequences, FiniteSets, TLC

VARIABLES polls, questions, answer_options, sessions, responses, req, issued

vars == <<polls, questions, answer_options, sessions, responses, req, issued>>

(***************************************************************************)
(* Bounds of the model.                                                    *)
(***************************************************************************)
NumRequests == 2        \* request slots: handlers that can be in flight together
MaxResponses == 2       \* rows of table responses
MaxSessions == 2        \* rows of table sessions
MaxPolls == 3           \* rows of table polls
MaxQuestions == 3       \* rows of table questions
MaxTokens == 2          \* distinct client session tokens
MaxCodes == 2           \* distinct access codes the random source may draw

Requests == 1..NumRequests

(***************************************************************************)
(* Store queries.                                                          *)
(***************************************************************************)
\* select(...).eq(...).execute() answers the ids of the rows that match,
\* written {i \in Ids(table) : ...}.
Ids(table) == 1..Len(table)

\* .data[0] of a non-empty result: rows come back in table order.
First(ids) == CHOOSE i \in ids : \A j \in ids : i <= j

\* .single(): the one matching row; 0 stands for "no data" (no row matched).
Single(ids) == IF Cardinality(ids) = 1 THEN First(ids) ELSE 0

(***************************************************************************)
(* Access codes: generate_access_code draws `length` symbols from the      *)
(* alphabet.  The model draws among the first MaxCodes codes of one        *)
(* repeated symbol.                                                        *)
(***************************************************************************)
alphabet ==
  <<"a", "b", "c", "d", "e", "f", "g", "h", "j", "k", "m", "n", "p", "q", "r", "s",
    "t", "u", "v", "w", "x", "y", "z", "2", "3", "4", "5", "6", "7", "8", "9">>

DefaultLength == 8

generate_access_code(length) ==
  {[i \in 1..length |-> alphabet[k]] : k \in 1..MaxCodes}

Code(k) == [i \in 1..DefaultLength |-> alphabet[k]]

(***************************************************************************)
(* Rows of the five tables, with the columns that a handler reads or that  *)
(* order the rows (title, password_hash, results_revealed, question_text   *)
(* and chart_type are written and never read back).                        *)
(***************************************************************************)
PollRow(id, slug, code, state) ==
  [id |-> id, slug |-> slug, access_code |-> code, state |-> state]
QuestionRow(id, poll, order) ==
  [id |-> id, poll_id |-> poll, question_order |-> order]
OptionRow(id, question, text, order) ==
  [id |-> id, question_id |-> question, option_text |-> text, option_order |-> order]
SessionRow(id, poll, token) ==
  [id |-> id, poll_id |-> poll, session_token |-> token]

ResponseRow(id, session, question, option) ==
  [id |-> id, session_id |-> session, question_id |-> question,
   answer_option_id |-> option]

(***************************************************************************)
(* Requests.  req[r] is the handler invocation running in slot r: which    *)
(* handler (op), where it is (pc), its request body, its local variables   *)
(* and, once pc = "done", the response it returned (status, errors, and    *)
(* the id in the response body, result_id).  state_at_start is history:    *)
(* the state the poll of a submit's session had when the handler started,  *)
(* and first_id is the value of issued for a session create's poll_id and  *)
(* session_token when the handler started.                                 *)
(***************************************************************************)
\* The Authorization header: its scheme, and of the token after "Bearer "
\* whether it is signed with JWT_SECRET, whether it has expired, and its sub.
NoHeader == [scheme |-> "", signed |-> FALSE, expired |-> FALSE, sub |-> ""]
AdminHeader == [scheme |-> "Bearer ", signed |-> TRUE, expired |-> FALSE, sub |-> "admin"]

\* A slug of a request body: its kind ("absent" for a missing or empty one,
\* "string", or "other" for a value that is no string), its text, whether the
\* text matches ^[a-z0-9-]+$, and its length.
NoSlug == [kind |-> "absent", text |-> "", matches |-> FALSE, len |-> 0]
Slug(text) == [kind |-> "string", text |-> text, matches |-> TRUE, len |-> 2]

\* answer_options of a request body: whether it is a list, and the
\* option_text of its entries ("" for an entry without one).
NoOptions == [list |-> TRUE, items |-> <<>>]

Idle ==
  [op |-> "none", pc |-> "idle",
   auth |-> NoHeader,
   session_token |-> 0, question_id |-> 0, answer_option_id |-> 0,
   poll_id |-> 0, session_id |-> 0, existing |-> 0,
   title_len |-> 0, slug |-> NoSlug, password_len |-> 0, access_code |-> <<>>,
   question_text |-> "", chart_type |-> "", answer_options |-> NoOptions,
   next_order |-> 0,
   status |-> 0, errors |-> <<>>, result_id |-> 0,
   state_at_start |-> "", first_id |-> 0]

Free(r) == req[r].pc \in {"idle", "done"}

\* json_response(status, data) / error_response(status, message)
Respond(rec, status, errors, id) ==
  [rec EXCEPT !.pc = "done", !.existing = 0, !.next_order = 0,
              !.status = status, !.errors = errors, !.result_id = id]

(***************************************************************************)
(* utils/validation.py                                                     *)
(***************************************************************************)
MaxTitle == 255
MaxSlug == 100
MinPassword == 4

validate_poll_data(data) ==
  (IF data.title_len = 0 THEN <<"Title is required">>
   ELSE IF data.title_len > MaxTitle THEN <<"Title must be 255 characters or less">>
   ELSE <<>>)
  \o (IF data.slug.kind = "absent" THEN <<>>
      ELSE IF data.slug.kind # "string" THEN <<"Slug must be a string">>
      ELSE IF ~data.slug.matches
        THEN <<"Slug can only contain lowercase letters, numbers, and hyphens">>
      ELSE IF data.slug.len > MaxSlug THEN <<"Slug must be 100 characters or less">>
      ELSE <<>>)
  \o (IF data.password_len # 0 /\ data.password_len < MinPassword
        THEN <<"Password must be at least 4 characters">>
        ELSE <<>>)

ChartTypes == {"horizontal_bar", "vertical_bar", "pie", "donut"}
MinOptions == 2

\* The messages for the entries of answer_options without option_text, in
\* the order of the list; Missing(i) stands for
\* "Answer option <i> must have option_text".
Missing(i) == <<"Answer option must have option_text", i>>

RECURSIVE OptionErrors(_, _)
OptionErrors(items, i) ==
  IF i > Len(items) THEN <<>>
  ELSE (IF items[i] = "" THEN <<Missing(i)>> ELSE <<>>) \o OptionErrors(items, i + 1)

validate_question_data(data) ==
  (IF data.poll_id = 0 THEN <<"Poll ID is required">> ELSE <<>>)
  \o (IF data.question_text = "" THEN <<"Question text is required">> ELSE <<>>)
  \o (IF data.chart_type # "" /\ data.chart_type \notin ChartTypes
        THEN <<"Invalid chart type">> ELSE <<>>)
  \o (IF data.answer_options.list /\ data.answer_options.items = <<>> THEN <<>>
      ELSE IF ~data.answer_options.list THEN <<"Answer options must be a list">>
      ELSE IF Len(data.answer_options.items) < MinOptions
        THEN <<"At least 2 answer options are required">>
      ELSE OptionErrors(data.answer_options.items, 1))

validate_response_data(data) ==
  (IF data.session_token = 0 THEN <<"Session token is required">> ELSE <<>>)
  \o (IF data.question_id = 0 THEN <<"Question ID is required">> ELSE <<>>)
  \o (IF data.answer_option_id = 0 THEN <<"Answer option ID is required">> ELSE <<>>)

(***************************************************************************)
(* utils/auth.py: the error of verify_admin_token, "" when it succeeds.    *)
(* jwt.decode raises JWTError for a token that is not signed with the      *)
(* secret or has expired.                                                  *)
(***************************************************************************)
\* verify_admin_token that only looks at the scheme: any Bearer token passes.
VerifyBearerOnly(auth_header) ==
  IF auth_header.scheme # "Bearer " THEN "Missing or invalid Authorization header"
  ELSE ""

verify_admin_token(auth_header) ==
  IF auth_header.scheme # "Bearer " THEN "Missing or invalid Authorization header"
  ELSE IF ~auth_header.signed \/ auth_header.expired THEN "Token verification failed"
  ELSE IF auth_header.sub # "admin" THEN "Invalid token subject"
  ELSE ""

(***************************************************************************)
(* POST /api/responses/submit                                              *)
(***************************************************************************)
\* lines 18-40: parse, validate, look the session up by its token.
SubmitBegin(r, bodies) ==
  /\ Free(r)
  /\ \E body \in bodies :
       LET errors == validate_response_data(body)
           session == Single({i \in Ids(sessions) :
                                sessions[i].session_token = body.session_token})
           new == [Idle EXCEPT !.op = "submit",
                                !.session_token = body.session_token,
                                !.question_id = body.question_id,
                                !.answer_option_id = body.answer_option_id]
       IN req' = [req EXCEPT ![r] =
                    IF errors # <<>> THEN Respond(new, 400, errors, 0)
                    ELSE IF session = 0
                      THEN Respond(new, 404, <<"Session not found">>, 0)
                    ELSE [new EXCEPT !.pc = "poll", !.session_id = session,
                                     !.poll_id = sessions[session].poll_id,
                                     !.state_at_start =
                                        polls[sessions[session].poll_id].state]]
  /\ UNCHANGED <<polls, questions, answer_options, sessions, responses, issued>>

\* PollAccepts without the test of the state: any poll that exists accepts.
PollAcceptsAnyState(poll) == poll # 0

\* PollAccepts that refuses drafts only: a closed poll accepts.
PollAcceptsUnlessDraft(poll) == poll # 0 /\ polls[poll].state # "draft"

\* PollAccepts that refuses closed polls only: a draft accepts.
PollAcceptsUnlessClosed(poll) == poll # 0 /\ polls[poll].state # "closed"

\* line 44 (and sessions/create.py lines 32-36): the poll row was found and
\* its state is open.
PollAccepts(poll) == poll # 0 /\ polls[poll].state = "open"

\* lines 42-45: the state of the session's poll.
SubmitPoll(r) ==
  /\ req[r].op = "submit" /\ req[r].pc = "poll"
  /\ LET poll == Single({i \in Ids(polls) : polls[i].id = req[r].poll_id})
     IN req' = [req EXCEPT ![r] =
                  IF ~PollAccepts(poll)
                    THEN Respond(@, 403, <<"Poll is not accepting responses">>, 0)
                    ELSE [@ EXCEPT !.pc = "question"]]
  /\ UNCHANGED <<polls, questions, answer_options, sessions, responses, issued>>

\* QuestionOfPoll without the filter on poll_id.
QuestionOfAnyPoll(question_id, poll_id) ==
  Single({i \in Ids(questions) : questions[i].id = question_id})

\* line 48: select id from questions where id = question_id and poll_id = poll_id
QuestionOfPoll(question_id, poll_id) ==
  Single({i \in Ids(questions) :
            questions[i].id = question_id /\ questions[i].poll_id = poll_id})

\* lines 47-50: the question, looked up by id and poll_id.
SubmitQuestion(r) ==
  /\ req[r].op = "submit" /\ req[r].pc = "question"
  /\ LET question == QuestionOfPoll(req[r].question_id, req[r].poll_id)
     IN req' = [req EXCEPT ![r] =
                  IF question = 0
                    THEN Respond(@, 404, <<"Question not found">>, 0)
                    ELSE [@ EXCEPT !.pc = "option"]]
  /\ UNCHANGED <<polls, questions, answer_options, sessions, responses, issued>>

\* OptionOfQuestion without the filter on question_id.
OptionOfAnyQuestion(answer_option_id, question_id) ==
  Single({i \in Ids(answer_options) : answer_options[i].id = answer_option_id})

\* line 53: select id from answer_options where id = answer_option_id and
\* question_id = question_id
OptionOfQuestion(answer_option_id, question_id) ==
  Single({i \in Ids(answer_options) :
            /\ answer_options[i].id = answer_option_id
            /\ answer_options[i].question_id = question_id})

\* lines 52-55: the answer option, looked up by id and question_id.
SubmitOption(r) ==
  /\ req[r].op = "submit" /\ req[r].pc = "option"
  /\ LET option == OptionOfQuestion(req[r].answer_option_id, req[r].question_id)
     IN req' = [req EXCEPT ![r] =
                  IF option = 0
                    THEN Respond(@, 404, <<"Answer option not found">>, 0)
                    ELSE [@ EXCEPT !.pc = "existing"]]
  /\ UNCHANGED <<polls, questions, answer_options, sessions, responses, issued>>

\* lines 57-58: is there a response of this session to this question?
SubmitExisting(r) ==
  /\ req[r].op = "submit" /\ req[r].pc = "existing"
  /\ LET existing == {i \in Ids(responses) :
                        /\ responses[i].session_id = req[r].session_id
                        /\ responses[i].question_id = req[r].question_id}
     IN req' = [req EXCEPT ![r] =
                  [@ EXCEPT !.pc = "write",
                            !.existing = IF existing # {} THEN First(existing) ELSE 0]]
  /\ UNCHANGED <<polls, questions, answer_options, sessions, responses, issued>>

\* Upsert that never updates: every submit inserts a row.
UpsertAlwaysInsert(table, existing, session_id, question_id, answer_option_id) ==
  Append(table, ResponseRow(Len(table) + 1, session_id, question_id,
                            answer_option_id))

\* lines 60-71: update answer_option_id of the row with id `existing`, or
\* insert a new row when the select found none (existing = 0).
Upsert(table, existing, session_id, question_id, answer_option_id) ==
  IF existing # 0
    THEN [table EXCEPT ![existing].answer_option_id = answer_option_id]
    ELSE Append(table, ResponseRow(Len(table) + 1, session_id, question_id,
                                   answer_option_id))

\* lines 60-76: update the row found, or insert a new one; ok is whether the
\* store returned the written row (result.data).
SubmitWrite(r) ==
  /\ req[r].op = "submit" /\ req[r].pc = "write"
  /\ \E ok \in BOOLEAN :
       /\ IF ~ok THEN UNCHANGED responses
          ELSE /\ responses' = Upsert(responses, req[r].existing, req[r].session_id,
                                     req[r].question_id, req[r].answer_option_id)
               /\ Len(responses') <= MaxResponses
       /\ req' = [req EXCEPT ![r] =
                    IF ok THEN Respond(@, 200, <<>>, 0)
                    ELSE Respond(@, 500, <<"Failed to save response">>, 0)]
  /\ UNCHANGED <<polls, questions, answer_options, sessions, issued>>

(***************************************************************************)
(* POST /api/sessions/create                                               *)
(***************************************************************************)
Pairs == (1..MaxPolls) \X (1..MaxTokens)

\* The first id returned for (poll_id, session_token) stays the one recorded.
Issue(poll_id, session_token, id) ==
  IF <<poll_id, session_token>> \in Pairs /\ issued[<<poll_id, session_token>>] = 0
    THEN [issued EXCEPT ![<<poll_id, session_token>>] = id]
    ELSE issued

FirstIssued(poll_id, session_token) ==
  IF <<poll_id, session_token>> \in Pairs THEN issued[<<poll_id, session_token>>] ELSE 0

\* lines 17-36: parse, require both fields, read the state of the poll.
SessionBegin(r, bodies) ==
  /\ Free(r)
  /\ \E body \in bodies :
       LET poll == Single({i \in Ids(polls) : polls[i].id = body.poll_id})
           new == [Idle EXCEPT !.op = "session",
                                !.poll_id = body.poll_id,
                                !.session_token = body.session_token,
                                !.first_id = FirstIssued(body.poll_id,
                                                         body.session_token)]
       IN req' = [req EXCEPT ![r] =
                    IF body.poll_id = 0 \/ body.session_token = 0
                      THEN Respond(new, 400,
                                   <<"poll_id and session_token are required">>, 0)
                    ELSE IF poll = 0
                      THEN Respond(new, 404, <<"Poll not found">>, 0)
                    ELSE IF ~PollAccepts(poll)
                      THEN Respond(new, 403, <<"Poll is not accepting responses">>, 0)
                    ELSE [new EXCEPT !.pc = "existing"]]
  /\ UNCHANGED <<polls, questions, answer_options, sessions, responses, issued>>

\* SessionsOfToken that finds nothing: the handler without its lookup.
SessionsOfNoToken(session_token) == {}

\* line 39: select id from sessions where session_token = session_token
SessionsOfToken(session_token) ==
  {i \in Ids(sessions) : sessions[i].session_token = session_token}

\* SessionExisting that only finds the sessions of the poll of the request.
SessionExistingSamePoll(r) ==
  /\ req[r].op = "session" /\ req[r].pc = "existing"
  /\ LET existing == {i \in SessionsOfToken(req[r].session_token) :
                        sessions[i].poll_id = req[r].poll_id}
     IN IF existing # {}
          THEN /\ req' = [req EXCEPT ![r] = Respond(@, 200, <<>>, First(existing))]
               /\ issued' = Issue(req[r].poll_id, req[r].session_token, First(existing))
          ELSE /\ req' = [req EXCEPT ![r] = [@ EXCEPT !.pc = "insert"]]
               /\ UNCHANGED issued
  /\ UNCHANGED <<polls, questions, answer_options, sessions, responses>>

\* lines 38-41: a session with this token exists: answer 200 with its id.
SessionExisting(r) ==
  /\ req[r].op = "session" /\ req[r].pc = "existing"
  /\ LET existing == SessionsOfToken(req[r].session_token)
     IN IF existing # {}
          THEN /\ req' = [req EXCEPT ![r] = Respond(@, 200, <<>>, First(existing))]
               /\ issued' = Issue(req[r].poll_id, req[r].session_token, First(existing))
          ELSE /\ req' = [req EXCEPT ![r] = [@ EXCEPT !.pc = "insert"]]
               /\ UNCHANGED issued
  /\ UNCHANGED <<polls, questions, answer_options, sessions, responses>>

\* lines 43-52: insert the session; ok is whether the store returned the row.
SessionInsert(r) ==
  /\ req[r].op = "session" /\ req[r].pc = "insert"
  /\ \E ok \in BOOLEAN :
       IF ok
         THEN /\ Len(sessions) < MaxSessions
              /\ sessions' = Append(sessions,
                               SessionRow(Len(sessions) + 1, req[r].poll_id,
                                          req[r].session_token))
              /\ req' = [req EXCEPT ![r] = Respond(@, 201, <<>>, Len(sessions) + 1)]
              /\ issued' = Issue(req[r].poll_id, req[r].session_token,
                                 Len(sessions) + 1)
         ELSE /\ req' = [req EXCEPT ![r] =
                           Respond(@, 500, <<"Failed to create session">>, 0)]
              /\ UNCHANGED <<sessions, issued>>
  /\ UNCHANGED <<polls, questions, answer_options, responses>>

(***************************************************************************)
(* POST /api/polls/create                                                  *)
(***************************************************************************)
\* line 48: select id from polls where slug = slug
PollsOfSlug(slug) == {i \in Ids(polls) : polls[i].slug = slug}

\* line 55: select id from polls where access_code = access_code
PollsOfCode(access_code) == {i \in Ids(polls) : polls[i].access_code = access_code}

\* lines 28-53: authenticate, parse, validate, check that the slug is free
\* (when one is given), draw the first access code.
PollBegin(r, calls) ==
  /\ Free(r)
  /\ \E call \in calls :
       LET auth_error == verify_admin_token(call.auth)
           errors == validate_poll_data(call)
           new == [Idle EXCEPT !.op = "poll", !.auth = call.auth,
                                !.title_len = call.title_len, !.slug = call.slug,
                                !.password_len = call.password_len]
       IN IF auth_error # ""
            THEN req' = [req EXCEPT ![r] = Respond(new, 401, <<auth_error>>, 0)]
          ELSE IF errors # <<>>
            THEN req' = [req EXCEPT ![r] = Respond(new, 400, errors, 0)]
          ELSE IF call.slug.kind # "absent" /\ PollsOfSlug(call.slug.text) # {}
            THEN req' = [req EXCEPT ![r] =
                           Respond(new, 409, <<"Slug already in use">>, 0)]
          ELSE \E access_code \in generate_access_code(DefaultLength) :
                 req' = [req EXCEPT ![r] =
                           [new EXCEPT !.pc = "code", !.access_code = access_code]]
  /\ UNCHANGED <<polls, questions, answer_options, sessions, responses, issued>>

\* PollCode without the existence check: the first candidate is taken.
PollCodeUnchecked(r) ==
  /\ req[r].op = "poll" /\ req[r].pc = "code"
  /\ req' = [req EXCEPT ![r] = [@ EXCEPT !.pc = "insert"]]
  /\ UNCHANGED <<polls, questions, answer_options, sessions, responses, issued>>

\* lines 54-58: one iteration of the loop: leave it when no poll has the code,
\* draw another code otherwise.
PollCode(r) ==
  /\ req[r].op = "poll" /\ req[r].pc = "code"
  /\ IF PollsOfCode(req[r].access_code) = {}
       THEN req' = [req EXCEPT ![r] = [@ EXCEPT !.pc = "insert"]]
       ELSE \E access_code \in generate_access_code(DefaultLength) :
              req' = [req EXCEPT ![r] = [@ EXCEPT !.access_code = access_code]]
  /\ UNCHANGED <<polls, questions, answer_options, sessions, responses, issued>>

\* lines 60-85: insert the poll as a draft; ok is whether the store returned
\* the row.
PollInsert(r) ==
  /\ req[r].op = "poll" /\ req[r].pc = "insert"
  /\ \E ok \in BOOLEAN :
       IF ok
         THEN /\ Len(polls) < MaxPolls
              /\ polls' = Append(polls, PollRow(Len(polls) + 1, req[r].slug.text,
                                                req[r].access_code, "draft"))
              /\ req' = [req EXCEPT ![r] = Respond(@, 201, <<>>, Len(polls) + 1)]
         ELSE /\ req' = [req EXCEPT ![r] =
                           Respond(@, 500, <<"Failed to create poll">>, 0)]
              /\ UNCHANGED polls
  /\ UNCHANGED <<questions, answer_options, sessions, responses, issued>>

(***************************************************************************)
(* POST /api/questions/create                                              *)
(***************************************************************************)
\* lines 19-41: authenticate, parse, validate, check that the poll exists.
QuestionBegin(r, calls) ==
  /\ Free(r)
  /\ \E call \in calls :
       LET auth_error == verify_admin_token(call.auth)
           errors == validate_question_data(call)
           poll == Single({i \in Ids(polls) : polls[i].id = call.poll_id})
           new == [Idle EXCEPT !.op = "question", !.auth = call.auth,
                                !.poll_id = call.poll_id,
                                !.question_text = call.question_text,
                                !.chart_type = call.chart_type,
                                !.answer_options = call.answer_options]
       IN req' = [req EXCEPT ![r] =
                    IF auth_error # "" THEN Respond(new, 401, <<auth_error>>, 0)
                    ELSE IF errors # <<>> THEN Respond(new, 400, errors, 0)
                    ELSE IF poll = 0 THEN Respond(new, 404, <<"Poll not found">>, 0)
                    ELSE [new EXCEPT !.pc = "order"]]
  /\ UNCHANGED <<polls, questions, answer_options, sessions, responses, issued>>

\* line 44: select question_order from questions where poll_id = poll_id
QuestionsOfPoll(poll_id) == {i \in Ids(questions) : questions[i].poll_id = poll_id}

\* The largest question_order of the questions of a poll (the first row of the
\* select ordered by question_order descending, limit 1).
MaxOrder(poll_id) ==
  LET orders == {questions[q].question_order : q \in QuestionsOfPoll(poll_id)}
  IN CHOOSE m \in orders : \A o \in orders : o <= m

\* lines 43-45: one more than the largest order, 0 for the first question.
NextOrder(poll_id) ==
  IF QuestionsOfPoll(poll_id) # {}
    THEN MaxOrder(poll_id) + 1
    ELSE 0

QuestionOrder(r) ==
  /\ req[r].op = "question" /\ req[r].pc = "order"
  /\ req' = [req EXCEPT ![r] =
               [@ EXCEPT !.pc = "insert", !.next_order = NextOrder(req[r].poll_id)]]
  /\ UNCHANGED <<polls, questions, answer_options, sessions, responses, issued>>

\* lines 47-62 and 74: insert the question; ok is whether the store returned
\* the row.  Without answer options the handler answers 201 at once.
QuestionInsert(r) ==
  /\ req[r].op = "question" /\ req[r].pc = "insert"
  /\ \E ok \in BOOLEAN :
       IF ok
         THEN /\ Len(questions) < MaxQuestions
              /\ questions' = Append(questions,
                                QuestionRow(Len(questions) + 1, req[r].poll_id,
                                            req[r].next_order))
              /\ req' = [req EXCEPT ![r] =
                           IF req[r].answer_options.items # <<>>
                             THEN [@ EXCEPT !.pc = "options",
                                            !.question_id = Len(questions) + 1]
                             ELSE Respond([@ EXCEPT !.question_id = Len(questions) + 1],
                                          201, <<>>, Len(questions) + 1)]
         ELSE /\ req' = [req EXCEPT ![r] =
                           Respond(@, 500, <<"Failed to create question">>, 0)]
              /\ UNCHANGED questions
  /\ UNCHANGED <<polls, answer_options, sessions, responses, issued>>

\* lines 63-70: the option rows, option_order the position in the list from 0.
RECURSIVE AppendOptions(_, _, _, _)
AppendOptions(table, question_id, items, i) ==
  IF i > Len(items) THEN table
  ELSE AppendOptions(Append(table, OptionRow(Len(table) + 1, question_id,
                                             items[i], i - 1)),
                     question_id, items, i + 1)

\* lines 71-74: insert the options in one call; ok is whether the store
\* inserted them.  The handler answers 201 whatever the store returned.
QuestionOptions(r) ==
  /\ req[r].op = "question" /\ req[r].pc = "options"
  /\ \E ok \in BOOLEAN :
       IF ok
         THEN answer_options' = AppendOptions(answer_options, req[r].question_id,
                                              req[r].answer_options.items, 1)
         ELSE UNCHANGED answer_options
  /\ req' = [req EXCEPT ![r] = Respond(@, 201, <<>>, req[r].question_id)]
  /\ UNCHANGED <<polls, questions, sessions, responses, issued>>

(***************************************************************************)
(* The admin state transition draft -> open -> closed.  Its handler is not *)
(* among the sources; only its effect on polls.state is modelled.          *)
(***************************************************************************)
NextState(state) == IF state = "draft" THEN "open" ELSE "closed"

AdminTransition(p) ==
  /\ p \in 1..Len(polls)
  /\ polls[p].state # "closed"
  /\ polls' = [polls EXCEPT ![p].state = NextState(@)]
  /\ UNCHANGED <<questions, answer_options, sessions, responses, req, issued>>

(***************************************************************************)
(* A store with two polls, one question with two options each, and one     *)
(* session each: what the handlers leave after two polls were created and  *)
(* opened, a question added to each and a participant joined each; the     *)
(* second poll is in state2 (open, or closed since).                       *)
(***************************************************************************)
NoneIssued == [pt \in Pairs |-> 0]

PopulatedStore(state2) ==
  /\ polls = <<PollRow(1, "", Code(1), "open"), PollRow(2, "", Code(2), state2)>>
  /\ questions = <<QuestionRow(1, 1, 0), QuestionRow(2, 2, 0)>>
  /\ answer_options = <<OptionRow(1, 1, "A", 0), OptionRow(2, 1, "B", 1),
                        OptionRow(3, 2, "A", 0), OptionRow(4, 2, "B", 1)>>
  /\ sessions = <<SessionRow(1, 1, 1), SessionRow(2, 2, 2)>>
  /\ issued = [NoneIssued EXCEPT ![<<1, 1>>] = 1, ![<<2, 2>>] = 2]

\* Request bodies of submit: 0 is a missing field, the largest value of each
\* field names no row.
SubmitBodies ==
  [session_token : 0..MaxTokens + 1, question_id : 0..3, answer_option_id : 0..5]

SubmitBody(session_token, question_id, answer_option_id) ==
  [session_token |-> session_token, question_id |-> question_id,
   answer_option_id |-> answer_option_id]

\* Complete bodies of session 1: its question with either of its options or
\* with an option of the other question, and the question of the other poll.
SubmitBodiesRace ==
  {SubmitBody(1, 1, 1), SubmitBody(1, 1, 2), SubmitBody(1, 1, 3), SubmitBody(1, 2, 3)}

(***************************************************************************)
(* Submit requests running concurrently while the admin closes polls.      *)
(***************************************************************************)
SubmitInit ==
  /\ PopulatedStore("closed")
  /\ responses = <<>>
  /\ req = [r \in Requests |-> Idle]

SubmitStep(r, bodies) ==
  \/ SubmitBegin(r, bodies)
  \/ SubmitPoll(r)
  \/ SubmitQuestion(r)
  \/ SubmitOption(r)
  \/ SubmitExisting(r)
  \/ SubmitWrite(r)

SubmitNext ==
  \/ \E r \in Requests : SubmitStep(r, SubmitBodiesRace)
  \/ \E p \in 1..Len(polls) : AdminTransition(p)

SpecSubmit == SubmitInit /\ [][SubmitNext]_vars

\* One submit request at a time, with every request body.
SubmitSeqNext ==
  \/ SubmitStep(1, SubmitBodies)
  \/ \E p \in 1..Len(polls) : AdminTransition(p)

SubmitSeqInit ==
  /\ PopulatedStore("open")
  /\ responses = <<>>
  /\ req = [r \in Requests |-> Idle]

SpecSubmitSeq == SubmitSeqInit /\ [][SubmitSeqNext]_vars

(***************************************************************************)
(* Session creations.  Two polls exist and no participant has joined yet;  *)
(* poll 1 is open, poll 2 is still a draft.  poll_id 3 names no poll.      *)
(***************************************************************************)
SessionBodies == [poll_id : 0..3, session_token : 0..MaxTokens]

\* Complete bodies with one token, naming one of the two polls.
SessionBodiesRace == [poll_id : 1..2, session_token : {1}]

SessionInit ==
  /\ polls = <<PollRow(1, "", Code(1), "open"), PollRow(2, "", Code(2), "draft")>>
  /\ questions = <<>>
  /\ answer_options = <<>>
  /\ sessions = <<>>
  /\ responses = <<>>
  /\ issued = NoneIssued
  /\ req = [r \in Requests |-> Idle]

SessionStep(r, bodies) ==
  \/ SessionBegin(r, bodies)
  \/ SessionExisting(r)
  \/ SessionInsert(r)

\* Session creations running concurrently while the admin opens and closes
\* polls.
SessionNext ==
  \/ \E r \in Requests : SessionStep(r, SessionBodiesRace)
  \/ \E p \in 1..Len(polls) : AdminTransition(p)

SpecSession == SessionInit /\ [][SessionNext]_vars

\* Session creations issued one after another, and nothing else: polls 1 and
\* 2 are open and stay so, poll 3 is a draft or closed, poll_id 4 names no poll.
SessionSeqInit ==
  /\ \E state3 \in {"draft", "closed"} :
       polls = <<PollRow(1, "", Code(1), "open"), PollRow(2, "", Code(2), "open"),
                 PollRow(3, "", Code(1), state3)>>
  /\ questions = <<>>
  /\ answer_options = <<>>
  /\ sessions = <<>>
  /\ responses = <<>>
  /\ issued = NoneIssued
  /\ req = [r \in Requests |-> Idle]

SessionSeqNext == SessionStep(1, [poll_id : 0..4, session_token : 0..MaxTokens])

SpecSessionSeq == SessionSeqInit /\ [][SessionSeqNext]_vars

(***************************************************************************)
(* Poll creations, from an empty store.                                    *)
(***************************************************************************)
EmptyStore ==
  /\ polls = <<>>
  /\ questions = <<>>
  /\ answer_options = <<>>
  /\ sessions = <<>>
  /\ responses = <<>>
  /\ issued = NoneIssued

PollCall(auth, title_len, slug, password_len) ==
  [auth |-> auth, title_len |-> title_len, slug |-> slug,
   password_len |-> password_len]

\* Authenticated, valid calls: without a slug, or with slug "s1".
PollCallsRace == {PollCall(AdminHeader, 5, NoSlug, 0),
                  PollCall(AdminHeader, 5, Slug("s1"), 0)}

PollInit ==
  /\ EmptyStore
  /\ req = [r \in Requests |-> Idle]

PollStep(r, calls) ==
  \/ PollBegin(r, calls)
  \/ PollCode(r)
  \/ PollInsert(r)

\* Poll creations running concurrently.
PollNext == \E r \in Requests : PollStep(r, PollCallsRace)

SpecPoll == PollInit /\ [][PollNext]_vars

(***************************************************************************)
(* Question creations on two polls without questions.                      *)
(***************************************************************************)
QuestionCall(auth, poll_id, question_text, chart_type, options) ==
  [auth |-> auth, poll_id |-> poll_id, question_text |-> question_text,
   chart_type |-> chart_type, answer_options |-> options]

Options(items) == [list |-> TRUE, items |-> items]

\* Authenticated, valid calls for poll 1 or 2, with two options or none.
QuestionCallsRace ==
  {QuestionCall(AdminHeader, poll_id, "Q", "", options) :
     poll_id \in 1..2, options \in {NoOptions, Options(<<"A", "B">>)}}

QuestionInit ==
  /\ polls = <<PollRow(1, "", Code(1), "draft"), PollRow(2, "", Code(2), "draft")>>
  /\ questions = <<>>
  /\ answer_options = <<>>
  /\ sessions = <<>>
  /\ responses = <<>>
  /\ issued = NoneIssued
  /\ req = [r \in Requests |-> Idle]

QuestionStep(r, calls) ==
  \/ QuestionBegin(r, calls)
  \/ QuestionOrder(r)
  \/ QuestionInsert(r)
  \/ QuestionOptions(r)

\* Question creations running concurrently.
QuestionNext == \E r \in Requests : QuestionStep(r, QuestionCallsRace)

SpecQuestion == QuestionInit /\ [][QuestionNext]_vars

\* Question creations issued one after another: authenticated calls for
\* poll 1 or 2, or for poll_id 3 that names no poll, with no options, two or
\* three.
QuestionCallsSeq ==
  {QuestionCall(AdminHeader, poll_id, "Q", "", options) :
     poll_id \in 1..3,
     options \in {NoOptions, Options(<<"A", "B">>), Options(<<"B", "C", "A">>)}}

QuestionSeqNext == QuestionStep(1, QuestionCallsSeq)

SpecQuestionSeq == QuestionInit /\ [][QuestionSeqNext]_vars

(***************************************************************************)
(* The four handlers, one request at a time, with every Authorization      *)
(* header on the two admin handlers.  Poll 1 is open and has one question  *)
(* with two options; nobody has joined yet.                                *)
(***************************************************************************)
\* No header, the admin token under another scheme, a token that is not
\* signed with the secret, an expired one, one of another subject, and the
\* admin's.
Headers ==
  {NoHeader,
   [AdminHeader EXCEPT !.scheme = "Basic "],
   [AdminHeader EXCEPT !.signed = FALSE],
   [AdminHeader EXCEPT !.expired = TRUE],
   [AdminHeader EXCEPT !.sub = "user"],
   AdminHeader}

\* Poll calls with a title or without.
PollCallsGate ==
  {PollCall(auth, title_len, NoSlug, 0) : auth \in Headers, title_len \in {0, 5}}

\* Question calls with two options for poll 1 or for poll_id 3 that names no
\* poll, with a text or without.
QuestionCallsGate ==
  {QuestionCall(auth, poll_id, question_text, "", Options(<<"A", "B">>)) :
     auth \in Headers, poll_id \in {1, 3}, question_text \in {"", "Q"}}

GateInit ==
  /\ polls = <<PollRow(1, "", Code(1), "open")>>
  /\ questions = <<QuestionRow(1, 1, 0)>>
  /\ answer_options = <<OptionRow(1, 1, "A", 0), OptionRow(2, 1, "B", 1)>>
  /\ sessions = <<>>
  /\ responses = <<>>
  /\ issued = NoneIssued
  /\ req = [r \in Requests |-> Idle]

GateNext ==
  \/ PollStep(1, PollCallsGate)
  \/ QuestionStep(1, QuestionCallsGate)
  \/ SessionStep(1, [poll_id : {1}, session_token : {1}])
  \/ SubmitStep(1, {SubmitBody(1, 1, 1), SubmitBody(1, 1, 2)})

SpecGate == GateInit /\ [][GateNext]_vars

(***************************************************************************)
(* Authenticated poll and question creations and submits, one request at a *)
(* time, with bodies that break the rules of utils/validation.py singly    *)
(* and together.                                                           *)
(***************************************************************************)
\* Slugs: none, a value that is no string, and strings that match the
\* pattern or not, of length 100 and 101.
SlugInputs ==
  {NoSlug, [kind |-> "other", text |-> "", matches |-> FALSE, len |-> 0]}
  \cup {[kind |-> "string", text |-> "s1", matches |-> m, len |-> n] :
          m \in BOOLEAN, n \in {MaxSlug, MaxSlug + 1}}

PollCallsValidate ==
  {PollCall(AdminHeader, title_len, slug, password_len) :
     title_len \in {0, MaxTitle, MaxTitle + 1}, slug \in SlugInputs,
     password_len \in {0, MinPassword - 1, MinPassword}}

\* answer_options: none, a value that is no list, and lists of one or two
\* entries with option_text or without.
OptionInputs ==
  {NoOptions, [list |-> FALSE, items |-> <<>>],
   Options(<<"A">>), Options(<<"">>),
   Options(<<"A", "B">>), Options(<<"A", "">>), Options(<<"", "">>)}

QuestionCallsValidate ==
  {QuestionCall(AdminHeader, poll_id, question_text, chart_type, options) :
     poll_id \in 0..1, question_text \in {"", "Q"},
     chart_type \in {"", "pie", "line"}, options \in OptionInputs}

\* Poll 1 is open, has one question with two options, and one participant.
ValidateInit ==
  /\ polls = <<PollRow(1, "", Code(1), "open")>>
  /\ questions = <<QuestionRow(1, 1, 0)>>
  /\ answer_options = <<OptionRow(1, 1, "A", 0), OptionRow(2, 1, "B", 1)>>
  /\ sessions = <<SessionRow(1, 1, 1)>>
  /\ issued = [NoneIssued EXCEPT ![<<1, 1>>] = 1]
  /\ responses = <<>>
  /\ req = [r \in Requests |-> Idle]

ValidateNext ==
  \/ PollStep(1, PollCallsValidate)
  \/ QuestionStep(1, QuestionCallsValidate)
  \/ SubmitStep(1, [session_token : 0..1, question_id : 0..1,
                    answer_option_id : 0..1])

SpecValidate == ValidateInit /\ [][ValidateNext]_vars

(***************************************************************************)
(* Poll creations issued one after another on a store in which the first n *)
(* codes are taken, under fairness: a handler that can take a step takes   *)
(* it, and the random source draws every code again and again.             *)
(***************************************************************************)
CodeSpace == generate_access_code(DefaultLength)

\* An iteration of the loop that continues with candidate access_code.
Draws(r, access_code) == PollCode(r) /\ req'[r].access_code = access_code

PollLiveInit ==
  /\ \E n \in 0..MaxCodes :
       polls = [i \in 1..n |-> PollRow(i, "", Code(i), "draft")]
  /\ questions = <<>>
  /\ answer_options = <<>>
  /\ sessions = <<>>
  /\ responses = <<>>
  /\ issued = NoneIssued
  /\ req = [r \in Requests |-> Idle]

\* Poll calls with every header, with a title or without, with a slug or none.
PollCallsLive ==
  {PollCall(auth, title_len, slug, 0) :
     auth \in Headers, title_len \in {0, 5},
     slug \in {NoSlug, Slug("s1"), Slug("s2")}}

PollLiveNext == PollStep(1, PollCallsLive)

SpecPollLive ==
  /\ PollLiveInit /\ [][PollLiveNext]_vars
  /\ WF_vars(PollCode(1)) /\ WF_vars(PollInsert(1))
  /\ \A access_code \in CodeSpace : SF_vars(Draws(1, access_code))

(***************************************************************************)
(* The life of polls: poll 1 is a draft with one question and two options; *)
(* polls are created, the admin opens and closes polls, participants join  *)
(* and answer.                                                             *)
(***************************************************************************)
LifecycleInit ==
  /\ polls = <<PollRow(1, "", Code(1), "draft")>>
  /\ questions = <<QuestionRow(1, 1, 0)>>
  /\ answer_options = <<OptionRow(1, 1, "A", 0), OptionRow(2, 1, "B", 1)>>
  /\ sessions = <<>>
  /\ responses = <<>>
  /\ issued = NoneIssued
  /\ req = [r \in Requests |-> Idle]

\* A participant's requests run in slot 1 and the admin's poll creations in
\* slot 2, each one request at a time, concurrently with each other and with
\* the admin's state transitions.
LifecycleNext ==
  \/ SessionStep(1, [poll_id : 1..2, session_token : {1}])
  \/ SubmitStep(1, {SubmitBody(1, 1, 1), SubmitBody(1, 1, 2)})
  \/ PollStep(2, {PollCall(AdminHeader, 5, NoSlug, 0)})
  \/ \E p \in 1..Len(polls) : AdminTransition(p)

SpecLifecycle == LifecycleInit /\ [][LifecycleNext]_vars

(***************************************************************************)
(*                              Properties                                 *)
(***************************************************************************)
Submits(r) == req[r].op = "submit"
Creates(r) == req[r].op = "session"
Done(r) == req[r].pc = "done"

\* The rows of responses of one (session, question).
ResponsesOf(table, session_id, question_id) ==
  {i \in Ids(table) :
     table[i].session_id = session_id /\ table[i].question_id = question_id}

\* C1: in every reachable state, also under interleaved concurrent submits,
\* the responses table holds at most one row per (session_id, question_id).
C1_OneResponsePerSessionQuestion ==
  \A i, j \in 1..Len(responses) :
    (responses[i].session_id = responses[j].session_id
     /\ responses[i].question_id = responses[j].question_id) => i = j

\* After a successful submit the store holds exactly one response of its
\* (session, question), and it carries the option just submitted.
C2_AfterSubmit ==
  \A r \in Requests :
    (Submits(r) /\ Done(r) /\ req[r].status = 200) =>
      LET rows == ResponsesOf(responses, req[r].session_id, req[r].question_id)
      IN /\ Cardinality(rows) = 1
         /\ responses[First(rows)].answer_option_id = req[r].answer_option_id

\* The successful write inserts the row when the (session, question) had
\* none; otherwise it changes answer_option_id of that row and nothing else.
C2_WriteStep ==
  \A r \in Requests :
    (Submits(r) /\ req[r].pc = "write" /\ req'[r].pc = "done" /\ req'[r].status = 200) =>
      LET rows == ResponsesOf(responses, req[r].session_id, req[r].question_id)
      IN IF rows = {}
           THEN responses' = Append(responses,
                               ResponseRow(Len(responses) + 1, req[r].session_id,
                                           req[r].question_id, req[r].answer_option_id))
           ELSE /\ Len(responses') = Len(responses)
                /\ \A i \in 1..Len(responses) :
                     responses'[i] =
                       IF i \in rows
                         THEN [responses[i] EXCEPT !.answer_option_id =
                                                     req[r].answer_option_id]
                         ELSE responses[i]

\* C2: submits run one after another.  After each successful submit the store
\* holds exactly one response of its (session, question), carrying the option
\* just submitted (so after o1..on it carries on); the first write inserts the
\* row, every later one overwrites only answer_option_id of that row, and no
\* other response changes.
C2_LastWriteWins == [](C2_AfterSubmit) /\ [][C2_WriteStep]_vars

\* Session 1 answered first, session 2 after it, and the last request is a
\* successful submit of session 1: it overwrote row 1 while row 2 was there.
C2_Witness ==
  /\ Submits(1) /\ Done(1) /\ req[1].status = 200 /\ req[1].session_token = 1
  /\ req[1].answer_option_id = 2
  /\ Len(responses) = 2
  /\ responses[1] = ResponseRow(1, 1, 1, 2)
  /\ responses[2].session_id = 2

\* A submit that started when the poll of its session was not open is at the
\* check of the poll state or has ended there with 403.
C3_Rejected ==
  \A r \in Requests :
    (Submits(r) /\ req[r].state_at_start \notin {"", "open"}) =>
      /\ req[r].pc \in {"poll", "done"}
      /\ Done(r) => /\ req[r].status = 403
                    /\ req[r].errors = <<"Poll is not accepting responses">>

\* No step of such a submit changes the responses table.
C3_NoWrite ==
  \A r \in Requests :
    (req'[r] # req[r] /\ req'[r].op = "submit"
     /\ req'[r].state_at_start \notin {"", "open"}) => responses' = responses

\* C3: a submit that starts when the poll of its session is no longer open
\* (the session was created while it was) never gets past the check of the
\* poll state, ends with 403 "Poll is not accepting responses", and leaves the
\* responses table unchanged, whatever its question_id and answer_option_id.
C3_ClosedPollRejectsSubmit == [](C3_Rejected) /\ [][C3_NoWrite]_vars

\* A submit of session 1 with its own question and option, started after its
\* poll was closed, has ended.
C3_Witness ==
  \E r \in Requests :
    /\ Submits(r) /\ Done(r) /\ req[r].state_at_start = "closed"
    /\ req[r].session_token = 1 /\ req[r].question_id = 1
    /\ req[r].answer_option_id = 1
    /\ req[r].status = 403

\* C4: in every reachable state, also under interleaved concurrent session
\* creations with one session_token, no two session rows share their
\* session_token.
C4_UniqueSessionToken ==
  \A i, j \in 1..Len(sessions) :
    sessions[i].session_token = sessions[j].session_token => i = j

\* A create for a (poll_id, session_token) for which an earlier create had
\* returned a session_id ends with 200 and that session_id.
C5_SameSession ==
  \A r \in Requests :
    (Creates(r) /\ Done(r) /\ req[r].first_id # 0) =>
      /\ req[r].status = 200
      /\ req[r].result_id = req[r].first_id

\* No step of such a create changes the sessions table.
C5_NoNewRow ==
  \A r \in Requests :
    (req'[r] # req[r] /\ req'[r].op = "session" /\ req'[r].first_id # 0) =>
      sessions' = sessions

\* C5: session creations issued one after another.  When a create for a
\* (poll_id, session_token) has returned a session_id, every later create for
\* the same pair, with any other creations in between, returns that same
\* session_id with status 200 (not 201) and adds no session row.
C5_Idempotent == [](C5_SameSession) /\ [][C5_NoNewRow]_vars

\* The create for (poll 1, token 1) was answered with session 1, another
\* session was created after it, and a later create for (poll 1, token 1) has
\* ended.
C5_Witness ==
  /\ Creates(1) /\ Done(1) /\ req[1].poll_id = 1 /\ req[1].session_token = 1
  /\ req[1].first_id = 1 /\ req[1].status = 200
  /\ Len(sessions) = 2

PollOf(poll_id) == {i \in Ids(polls) : polls[i].id = poll_id}

\* The response of a session create with both fields whose poll does not
\* exist, or is a draft or closed.
C6_Refused ==
  \A r \in Requests :
    (Creates(r) /\ Done(r) /\ req[r].poll_id # 0 /\ req[r].session_token # 0) =>
      /\ PollOf(req[r].poll_id) = {} =>
           /\ req[r].status = 404 /\ req[r].errors = <<"Poll not found">>
           /\ req[r].result_id = 0
      /\ (\E p \in PollOf(req[r].poll_id) : polls[p].state \in {"draft", "closed"}) =>
           /\ req[r].status = 403
           /\ req[r].errors = <<"Poll is not accepting responses">>
           /\ req[r].result_id = 0

\* A session create that ends with 403 or 404 adds no session row.
C6_NoRow ==
  \A r \in Requests :
    (req'[r] # req[r] /\ req'[r].op = "session" /\ req'[r].status \in {403, 404}) =>
      sessions' = sessions

\* C6: a session create with non-empty poll_id and session_token ends with
\* 404 "Poll not found" when no poll has its poll_id and with 403 "Poll is
\* not accepting responses" when the poll is a draft or closed; in both cases
\* it returns no session_id and adds no session row, whether or not its token
\* already has a session.
C6_PollGate == [](C6_Refused) /\ [][C6_NoRow]_vars

\* A create for poll 3 (a draft or closed) with the token of an existing
\* session was refused.
C6_Witness ==
  /\ Creates(1) /\ Done(1) /\ req[1].poll_id = 3 /\ req[1].status = 403
  /\ \E i \in 1..Len(sessions) : sessions[i].session_token = req[1].session_token

\* C7: in every reachable state, also under interleaved concurrent poll
\* creations that draw the same code, no two stored polls have the same
\* access_code.
C7_UniqueAccessCode ==
  \A i, j \in 1..Len(polls) : polls[i].access_code = polls[j].access_code => i = j

\* No two stored polls share a slug.
C8_UniqueSlug ==
  \A i, j \in 1..Len(polls) :
    (polls[i].slug # "" /\ polls[i].slug = polls[j].slug) => i = j

\* An authenticated, valid poll create that arrives when a stored poll has
\* its slug ends with 409 and leaves the polls table unchanged.
C8_Conflict ==
  \A r \in Requests :
    (Free(r) /\ req'[r] # req[r] /\ req'[r].op = "poll"
     /\ verify_admin_token(req'[r].auth) = "" /\ validate_poll_data(req'[r]) = <<>>
     /\ req'[r].slug.kind # "absent"
     /\ \E i \in 1..Len(polls) : polls[i].slug = req'[r].slug.text) =>
       /\ req'[r].pc = "done" /\ req'[r].status = 409
       /\ req'[r].errors = <<"Slug already in use">>
       /\ polls' = polls

\* C8: an authenticated, valid poll create whose slug is the slug of a stored
\* poll ends with 409 "Slug already in use", inserts no poll and modifies
\* none, and no two stored polls ever share a slug, also when two creations
\* with the same slug run concurrently.
C8_SlugConflict == [](C8_UniqueSlug) /\ [][C8_Conflict]_vars

\* Every stored response names a session, a question of that session's poll
\* and an option of that question.
C9_Consistent ==
  \A i \in 1..Len(responses) :
    LET x == responses[i]
    IN /\ x.session_id \in 1..Len(sessions)
       /\ x.question_id \in 1..Len(questions)
       /\ x.answer_option_id \in 1..Len(answer_options)
       /\ questions[x.question_id].poll_id = sessions[x.session_id].poll_id
       /\ answer_options[x.answer_option_id].question_id = x.question_id

QuestionInPoll(question_id, poll_id) ==
  \E q \in 1..Len(questions) :
    questions[q].id = question_id /\ questions[q].poll_id = poll_id

OptionInQuestion(answer_option_id, question_id) ==
  \E o \in 1..Len(answer_options) :
    answer_options[o].id = answer_option_id
    /\ answer_options[o].question_id = question_id

\* The step a submit takes at its question check when the question is not of
\* the session's poll, and at its option check when the option is not of the
\* question.
C9_Checks ==
  \A r \in Requests :
    /\ (Submits(r) /\ req[r].pc = "question" /\ req'[r] # req[r]
        /\ ~QuestionInPoll(req[r].question_id, req[r].poll_id)) =>
          /\ req'[r].pc = "done" /\ req'[r].status = 404
          /\ req'[r].errors = <<"Question not found">>
          /\ responses' = responses
    /\ (Submits(r) /\ req[r].pc = "option" /\ req'[r] # req[r]
        /\ ~OptionInQuestion(req[r].answer_option_id, req[r].question_id)) =>
          /\ req'[r].pc = "done" /\ req'[r].status = 404
          /\ req'[r].errors = <<"Answer option not found">>
          /\ responses' = responses

\* C9: in every reachable state every stored response is referentially
\* consistent (its question is a question of its session's poll, its option
\* an option of its question); a submit whose question is not of the
\* session's poll ends with 404 "Question not found", one whose option is not
\* of the question ends with 404 "Answer option not found", and neither
\* writes a response.
C9_ReferentialConsistency == [](C9_Consistent) /\ [][C9_Checks]_vars

\* A response is stored, one submit was refused for its question and another
\* for its option.
C9_Witness ==
  /\ Len(responses) >= 1
  /\ \E r1, r2 \in Requests :
       /\ Submits(r1) /\ Done(r1) /\ req[r1].errors = <<"Question not found">>
       /\ Submits(r2) /\ Done(r2) /\ req[r2].errors = <<"Answer option not found">>

\* C10: in every reachable state, also under interleaved concurrent question
\* creations on one poll, the question_order values of the questions of a
\* poll are pairwise distinct.
C10_DistinctQuestionOrder ==
  \A i, j \in 1..Len(questions) :
    (questions[i].poll_id = questions[j].poll_id
     /\ questions[i].question_order = questions[j].question_order) => i = j

Asks(r) == req[r].op = "question"

\* The option rows of a question, in table order.
OptionsOf(question_id) ==
  {o \in Ids(answer_options) : answer_options[o].question_id = question_id}

\* The k-th question created on a poll has question_order k-1.
C11_OrderIsRank ==
  \A q \in Ids(questions) :
    questions[q].question_order =
      Cardinality({q2 \in QuestionsOfPoll(questions[q].poll_id) : q2 < q})

\* A question created (201) with n answer options has exactly n option rows,
\* the i-th of the input with option_order i-1.
C11_OptionsInInputOrder ==
  \A r \in Requests :
    (Asks(r) /\ Done(r) /\ req[r].status = 201) =>
      LET items == req[r].answer_options.items
          rows == OptionsOf(req[r].question_id)
      IN /\ Cardinality(rows) = Len(items)
         /\ \A i \in 1..Len(items) :
              \E o \in rows : /\ answer_options[o].option_order = i - 1
                              /\ answer_options[o].option_text = items[i]

\* C11: question creations issued one after another.  The k-th question
\* created on a poll gets question_order k-1 (0 on an empty poll, one more
\* than the largest order otherwise), and a question created with n answer
\* options gets exactly n option rows with option_order 0..n-1 in the order of
\* the input.
C11_OrdersAssigned == C11_OrderIsRank /\ C11_OptionsInInputOrder

\* C12: a question creation with answer options never answers 201 while the
\* question is stored with fewer option rows than were supplied.
C12_OptionFailureSignalled ==
  \A r \in Requests :
    (Asks(r) /\ Done(r) /\ req[r].status = 201) =>
      Cardinality(OptionsOf(req[r].question_id)) >= Len(req[r].answer_options.items)

Admin(r) == req[r].op \in {"poll", "question"}

\* The header is 'Bearer <token>' with a token signed with the secret, not
\* expired, with subject admin.
Credential(auth) ==
  /\ auth.scheme = "Bearer " /\ auth.signed /\ ~auth.expired /\ auth.sub = "admin"

\* A poll create or question create without the credential has ended with
\* 401, whatever its body; session create and submit carry no header and are
\* never answered 401.
C13_Unauthorized ==
  \A r \in Requests :
    /\ (Admin(r) /\ ~Credential(req[r].auth)) =>
         /\ Done(r) /\ req[r].status = 401 /\ req[r].result_id = 0
    /\ (Submits(r) \/ Creates(r)) =>
         /\ req[r].auth = NoHeader /\ req[r].status # 401

\* No step of a poll create or question create without the credential
\* changes a table.
C13_NoEffect ==
  \A r \in Requests :
    (req'[r] # req[r] /\ req'[r].op \in {"poll", "question"}
     /\ ~Credential(req'[r].auth)) =>
       UNCHANGED <<polls, questions, answer_options, sessions, responses>>

\* C13: poll create and question create without a header 'Bearer <token>'
\* whose token is correctly signed, unexpired and has subject admin end with
\* 401 whatever the body (before validation and before the store is
\* consulted) and leave the tables unchanged; session create and submit need
\* no credential.
C13_AdminGate == [](C13_Unauthorized) /\ [][C13_NoEffect]_vars

\* A participant has joined and answered without any credential, and a
\* question create for a poll_id that names no poll, without text, with an
\* expired admin token was answered 401.
C13_Witness ==
  /\ Len(sessions) >= 1 /\ Len(responses) >= 1
  /\ req[1].op = "question" /\ Done(1) /\ req[1].status = 401
  /\ req[1].poll_id = 3 /\ req[1].question_text = ""
  /\ req[1].auth = [AdminHeader EXCEPT !.expired = TRUE]

\* The messages of the documented rules that a poll-create body violates.
PollViolations(data) ==
  (IF data.title_len = 0 THEN {"Title is required"} ELSE {})
  \cup (IF data.title_len > 255 THEN {"Title must be 255 characters or less"} ELSE {})
  \cup (IF data.slug.kind = "other" THEN {"Slug must be a string"} ELSE {})
  \cup (IF data.slug.kind = "string" /\ ~data.slug.matches
          THEN {"Slug can only contain lowercase letters, numbers, and hyphens"}
          ELSE {})
  \cup (IF data.slug.kind = "string" /\ data.slug.len > 100
          THEN {"Slug must be 100 characters or less"} ELSE {})
  \cup (IF data.password_len # 0 /\ data.password_len < 4
          THEN {"Password must be at least 4 characters"} ELSE {})

\* The messages of the documented rules that a question-create body violates.
QuestionViolations(data) ==
  LET options == data.answer_options
      given == ~options.list \/ options.items # <<>>
  IN (IF data.poll_id = 0 THEN {"Poll ID is required"} ELSE {})
     \cup (IF data.question_text = "" THEN {"Question text is required"} ELSE {})
     \cup (IF data.chart_type \notin
                {"", "horizontal_bar", "vertical_bar", "pie", "donut"}
             THEN {"Invalid chart type"} ELSE {})
     \cup (IF given /\ ~options.list THEN {"Answer options must be a list"} ELSE {})
     \cup (IF given /\ options.list /\ Len(options.items) < 2
             THEN {"At least 2 answer options are required"} ELSE {})
     \cup {Missing(i) : i \in {j \in 1..Len(options.items) : options.items[j] = ""}}

\* The messages of the documented rules that a submit body violates.
ResponseViolations(data) ==
  (IF data.session_token = 0 THEN {"Session token is required"} ELSE {})
  \cup (IF data.question_id = 0 THEN {"Question ID is required"} ELSE {})
  \cup (IF data.answer_option_id = 0 THEN {"Answer option ID is required"} ELSE {})

Violations(rec) ==
  IF rec.op = "poll" THEN PollViolations(rec)
  ELSE IF rec.op = "question" THEN QuestionViolations(rec)
  ELSE IF rec.op = "submit" THEN ResponseViolations(rec)
  ELSE {}

Messages(errors) == {errors[i] : i \in 1..Len(errors)}

\* C14: a poll create, question create or submit (authenticated where the
\* handler asks for it) whose body violates documented rules ends with 400
\* and the messages of exactly the rules it violates, all of them and not
\* only the first; a body that violates none is not answered 400.
C14_EveryViolationReported ==
  \A r \in Requests :
    (req[r].op \in {"poll", "question", "submit"}
     /\ (Admin(r) => Credential(req[r].auth))) =>
      IF Violations(req[r]) # {}
        THEN /\ Done(r) /\ req[r].status = 400
             /\ Messages(req[r].errors) = Violations(req[r])
        ELSE req[r].status # 400

\* The sessions of a token that belong to another poll than poll_id.
SessionsElsewhere(session_token, poll_id) ==
  {i \in Ids(sessions) : /\ sessions[i].session_token = session_token
                         /\ sessions[i].poll_id # poll_id}

\* A create that names an open poll and the token of a session of another
\* poll has ended with 200 and the id of that session.
C15_ExistingReturned ==
  \A r \in Requests :
    (Creates(r) /\ Done(r)
     /\ \E p \in PollOf(req[r].poll_id) : polls[p].state = "open"
     /\ SessionsElsewhere(req[r].session_token, req[r].poll_id) # {}) =>
      /\ req[r].status = 200
      /\ req[r].result_id \in SessionsElsewhere(req[r].session_token, req[r].poll_id)

\* Every step leaves the session rows as they are (rows are only added), and
\* no step of a create with the token of a session of another poll adds one.
C15_SessionsKept ==
  /\ Len(sessions') >= Len(sessions)
  /\ \A i \in Ids(sessions) : sessions'[i] = sessions[i]
  /\ \A r \in Requests :
       (req'[r] # req[r] /\ req'[r].op = "session"
        /\ SessionsElsewhere(req'[r].session_token, req'[r].poll_id) # {}) =>
         sessions' = sessions

\* C15: a session create that names an open poll B with a session_token that
\* belongs to a session of another poll A returns the id of that session with
\* 200, creates no session and leaves the session's poll_id A; no step ever
\* updates or deletes a session row.
C15_TokenAloneIdentifies == [](C15_ExistingReturned) /\ [][C15_SessionsKept]_vars

\* Token 1 joined poll 1 as session 1; a later create with token 1 for the
\* open poll 2 was answered with session 1, which is still of poll 1.
C15_Witness ==
  /\ Creates(1) /\ Done(1) /\ req[1].poll_id = 2 /\ req[1].session_token = 1
  /\ req[1].status = 200 /\ req[1].result_id = 1
  /\ sessions[1] = SessionRow(1, 1, 1)

Symbols == {alphabet[k] : k \in 1..Len(alphabet)}

\* The code has `length` characters, each of an alphabet of exactly 32
\* symbols without 0, O, 1, l and i.
MeetsContract(code, length) ==
  /\ Len(code) = length
  /\ \A i \in 1..Len(code) : code[i] \in Symbols
  /\ Cardinality(Symbols) = 32
  /\ Symbols \cap {"0", "O", "1", "l", "i"} = {}

\* C16: every access code that generate_access_code returned to a poll
\* create, and every access code stored on a created poll, has exactly 8
\* characters, each drawn from a fixed alphabet of exactly 32 symbols that
\* contains none of 0, O, 1, l, i.
C16_CodeContract ==
  /\ \A r \in Requests :
       (req[r].op = "poll" /\ req[r].access_code # <<>>) =>
         MeetsContract(req[r].access_code, 8)
  /\ \A p \in Ids(polls) : MeetsContract(polls[p].access_code, 8)

\* C17: no response row is inserted or overwritten in a state where the poll
\* of the writing session is not open, also when the admin closes the poll
\* between a submit's check of the poll state and its write.
C17_WriteOnlyWhileOpen ==
  [][\A r \in Requests :
       (Submits(r) /\ req'[r] # req[r] /\ responses' # responses) =>
         polls[req[r].poll_id].state = "open"]_vars

\* C18: when the store rejects the insert of a poll whose access_code a
\* stored poll already has (another creation persisted the code after this
\* one's existence check), the poll create does not end: it goes on to draw
\* a new code and insert again.
C18_CollisionRetried ==
  [][\A r \in Requests :
       (req[r].op = "poll" /\ req[r].pc = "insert" /\ req'[r] # req[r]
        /\ PollsOfCode(req[r].access_code) # {} /\ polls' = polls) =>
         req'[r].pc # "done"]_vars

InLoop(r) == req[r].op = "poll" /\ req[r].pc = "code"

\* The codes of the code space that no stored poll has.
UnusedCodes == {c \in CodeSpace : \A p \in Ids(polls) : polls[p].access_code # c}

\* The loop is left with the candidate of the iteration, which no stored poll
\* has; while every code is in use the request stays in the loop.
C19_LoopStep ==
  \A r \in Requests :
    /\ (InLoop(r) /\ req'[r] # req[r] /\ ~InLoop(r)') =>
         /\ req'[r].access_code = req[r].access_code
         /\ req[r].access_code \in UnusedCodes
    /\ (InLoop(r) /\ UnusedCodes = {}) => InLoop(r)'

\* C19: under fair draws the access-code loop of a poll create is left
\* whenever a code of the code space is not the code of a stored poll; the
\* code it is left with is the candidate that the existence check of that
\* iteration reported unused; when every code is in use the loop is never
\* left and the request never ends.
C19_LoopTerminates ==
  /\ \A r \in Requests : (InLoop(r) /\ UnusedCodes # {}) ~> ~InLoop(r)
  /\ [][C19_LoopStep]_vars

\* The first code is taken, and a create has left the loop with the second.
C19_Witness ==
  /\ req[1].op = "poll" /\ req[1].pc = "insert" /\ req[1].access_code = Code(2)
  /\ \E p \in Ids(polls) : polls[p].access_code = Code(1)

\* What a submit that has ended was answered, by the first defect of its
\* request in the order: body, session, state of the poll, question, option.
\* (Polls never reopen: a submit answered 403 finds its poll not open now,
\* and one that found its poll not open when it started was answered 403.)
C20_FirstDefect ==
  \A r \in Requests :
    (Submits(r) /\ Done(r)) =>
      IF ResponseViolations(req[r]) # {}
        THEN req[r].status = 400 /\ Messages(req[r].errors) = ResponseViolations(req[r])
      ELSE IF \A i \in Ids(sessions) : sessions[i].session_token # req[r].session_token
        THEN req[r].status = 404 /\ req[r].errors = <<"Session not found">>
      ELSE IF req[r].state_at_start # "open"
        THEN /\ req[r].status = 403
             /\ req[r].errors = <<"Poll is not accepting responses">>
      ELSE IF req[r].status = 403
        THEN /\ polls[req[r].poll_id].state # "open"
             /\ req[r].errors = <<"Poll is not accepting responses">>
      ELSE IF ~QuestionInPoll(req[r].question_id, req[r].poll_id)
        THEN req[r].status = 404 /\ req[r].errors = <<"Question not found">>
      ELSE IF ~OptionInQuestion(req[r].answer_option_id, req[r].question_id)
        THEN req[r].status = 404 /\ req[r].errors = <<"Answer option not found">>
      ELSE req[r].status \in {200, 500}

\* The step with which a submit ends in 400, 403 or 404 changes no table.
C20_FailureWritesNothing ==
  \A r \in Requests :
    (req'[r] # req[r] /\ req'[r].op = "submit" /\ req'[r].pc = "done"
     /\ req'[r].status \in {400, 403, 404}) =>
       UNCHANGED <<polls, questions, answer_options, sessions, responses>>

\* C20: a submit that fails with 400, 404 "Session not found", 403, 404
\* "Question not found" or 404 "Answer option not found" leaves all tables
\* unchanged, and the checks apply in that order: a request with several
\* defects is answered with the first of them.
C20_FailuresInOrder == [](C20_FirstDefect) /\ [][C20_FailureWritesNothing]_vars

\* A submit with a token of no session, a question_id of no question and an
\* answer_option_id of no option was answered "Session not found", after a
\* response had been stored.
C20_Witness ==
  /\ Submits(1) /\ Done(1) /\ req[1].session_token = MaxTokens + 1
  /\ req[1].question_id = 3 /\ req[1].answer_option_id = 5
  /\ req[1].status = 404 /\ req[1].errors = <<"Session not found">>
  /\ Len(responses) >= 1

\* A poll in state draft has no session, and no response of a session of it.
C21_DraftUntouched ==
  \A p \in Ids(polls) :
    polls[p].state = "draft" =>
      /\ \A i \in Ids(sessions) : sessions[i].poll_id # polls[p].id
      /\ \A x \in Ids(responses) :
           /\ responses[x].session_id \in Ids(sessions)
           /\ sessions[responses[x].session_id].poll_id # polls[p].id

\* A session is inserted only by a create that read its poll as open (the
\* poll is open or closed since, never a draft); a response is written only
\* for a session that is stored; no poll returns to draft.
C21_Steps ==
  /\ \A i \in Ids(sessions') \ Ids(sessions) :
       \E p \in Ids(polls) : /\ polls[p].id = sessions'[i].poll_id
                             /\ polls[p].state \in {"open", "closed"}
  /\ \A x \in Ids(responses') :
       (x \notin Ids(responses) \/ responses'[x] # responses[x]) =>
         responses'[x].session_id \in Ids(sessions)
  /\ \A p \in Ids(polls) : polls[p].state # "draft" => polls'[p].state # "draft"

\* C21: in every reachable state a poll in state draft has no session and no
\* response attached: sessions are inserted only for a poll whose state was
\* read as open, responses only through such sessions, and a poll that has
\* left draft never returns to it.
C21_DraftHasNoParticipants == [](C21_DraftUntouched) /\ [][C21_Steps]_vars

\* Poll 1 was opened, joined, answered and closed, and a poll created since
\* is a draft.
C21_Witness ==
  /\ Len(polls) >= 2 /\ polls[1].state = "closed" /\ polls[2].state = "draft"
  /\ Len(sessions) >= 1 /\ Len(responses) >= 1

====
